---- MODULE Spec2Model ----
(***************************************************************************)
(* State-machine model of the CineRecommend REST API (src/src/api/main.py) *)
(* : the two process-wide tables movies_df and ratings_df, numpy's global  *)
(* random generator, the start-up load and the request handlers; of the    *)
(* dashboard's recommendation stub (src/src/streamlit_app/app.py); and of  *)
(* the two start-up scripts (src/quick_start.py, src/launch_project.py).   *)
(*                                                                         *)
(* Every handler is an `async def` without any await, so the event loop    *)
(* runs it to completion: one action per handler.                          *)
(*                                                                         *)
(* Units: a rating is an integer number of tenths (0.5 is 5, 5.0 is 50), a *)
(* score an integer number of thousandths (0.5 is 500, 1.0 is 1000), a    *)
(* timestamp an integer number of 10^9 seconds since the epoch.            *)
(***************************************************************************)
EXTENDS Integers, Sequences, FiniteSets, TLC

VARIABLES
    phase,        \* "boot" before DataManager() ran, "serving" after
    moviesFile,   \* data/processed/movies_sample.csv : [kind, rows]
    ratingsFile,  \* data/processed/ratings_sample.csv: [kind, rows]
    movies_df,    \* global movies_df : sequence of movie rows (<<>> is None at boot)
    ratings_df,   \* global ratings_df: sequence of rating rows
    rng,          \* state of numpy's global generator
    now,          \* int(time.time())
    resp,         \* the response to the last request
    snap,         \* observer: one earlier successful recommendation response, kept for comparison
    dash,         \* the dashboard process: CineRecommendApp and its last call
    qs,           \* a run of quick_start.py: environment, position, calls made
    pl,           \* a run of launch_project.py: environment, position, calls made
    conc          \* the requests in progress on the event loop, and the POSTs answered 200

vars == <<phase, moviesFile, ratingsFile, movies_df, ratings_df, rng, now, resp, snap,
          dash, qs, pl, conc>>

----------------------------------------------------------------------------
(* Bounds of the model *)

MaxRatings == 2     \* rows ratings_df may reach through POST /ratings
MaxTime == 2        \* last value of the clock
RngMod == 16        \* number of states of the generator
RandRes == 4        \* number of distinct values np.random.random() returns
SampleMovies == 2   \* rows of the generated movies table   (100 in the code)
SampleRatings == 2  \* rows of the generated ratings table  (1000 in the code)
SampleUsers == 2    \* user ids of the generated ratings    (50 in the code)

(* Constants of the program *)

NRecMin == 1            \* Query(10, ge=1, ...)
NRecMax == 50           \* Query(10, ..., le=50)
RatingMin == 5          \* Field(..., ge=0.5, ...)
RatingMax == 50         \* Field(..., le=5.0)
SampleSeed == 42        \* np.random.seed(42)

Min(a, b) == IF a <= b THEN a ELSE b

Rows(table) == {table[i] : i \in 1..Len(table)}

----------------------------------------------------------------------------
(* Rows *)

MovieRow(id, title, genres) == [movieId |-> id, title |-> title, genres |-> genres]

RatingRow(u, m, r, t) == [userId |-> u, movieId |-> m, rating |-> r, timestamp |-> t]

ToyStory == MovieRow(1, <<"Toy Story", 1995>>, "Adventure|Comedy")
Heat     == MovieRow(2, <<"Heat", 1995>>, "Action|Thriller")

\* Contents a readable movies file may have (not in movieId order).
MovieFiles == { <<Heat, ToyStory>> }

\* Contents a readable ratings file may have; movie 9 is in no movies file.
RatingFiles == { <<>>,
                 <<RatingRow(1, 1, 50, 1)>>,
                 <<RatingRow(1, 2, 40, 1), RatingRow(1, 9, 45, 1)>> }

----------------------------------------------------------------------------
(* numpy's global generator.  The Mersenne Twister is abstracted to a      *)
(* congruential generator over RngMod states: what the handlers rely on is *)
(* that seeding fixes the state and that each draw is a function of it.    *)

RngNext(s) == (5 * s + 3) % RngMod

\* the call to np.random.seed left out: the generator keeps its state
np_random_seed_Skipped(s, seed) == s

\* np.random.seed(seed), for a seed it accepts
np_random_seed(s, seed) == seed % RngMod

\* the value a draw returns in state s (the state reached by the draw)
RandomOf(s)       == (s * RandRes) \div RngMod      \* random() is RandomOf / RandRes
RandintOf(s, lo, hi) == lo + (s % (hi - lo))        \* randint(lo, hi)
ChoiceOf(s, k)    == (s % k) + 1                    \* index chosen among k items

RECURSIVE RngAdvance(_, _)
\* the state after k draws from state s
RngAdvance(s, k) == IF k = 0 THEN s ELSE RngAdvance(RngNext(s), k - 1)

----------------------------------------------------------------------------
(* DataManager *)

SampleGenres == <<"Action|Adventure", "Comedy|Romance", "Drama", "Sci-Fi|Thriller", "Horror">>

SampleRatingValues == <<10, 15, 20, 25, 30, 35, 40, 45, 50>>

\* sample_movies: ids 1..SampleMovies, 'Film i (1990 + i % 30)', the genres cycled
SampleMovieTable ==
    [i \in 1..SampleMovies |->
        MovieRow(i, <<"Film", i, 1990 + (i % 30)>>, SampleGenres[((i - 1) % 5) + 1])]

\* sample_ratings, drawn column by column after np.random.seed(42)
SampleRatingTable(t) ==
    LET s0 == np_random_seed(0, SampleSeed)
        sU == s0
        sM == RngAdvance(s0, SampleRatings)
        sR == RngAdvance(s0, 2 * SampleRatings)
    IN  [i \in 1..SampleRatings |->
            RatingRow(RandintOf(RngAdvance(sU, i), 1, SampleUsers + 1),
                      RandintOf(RngAdvance(sM, i), 1, SampleMovies + 1),
                      SampleRatingValues[ChoiceOf(RngAdvance(sR, i), 9)],
                      t)]

\* the generator after create_sample_data
SampleRngAfter == RngAdvance(np_random_seed(0, SampleSeed), 3 * SampleRatings)

\* pd.read_csv raises on a file that cannot be read or parsed
ReadRaises(file) == file.kind = "malformed"

\* DataManager.load_data takes the files when both exist and both parse
LoadsFiles == /\ moviesFile.kind # "absent"
              /\ ratingsFile.kind # "absent"
              /\ ~ReadRaises(moviesFile)
              /\ ~ReadRaises(ratingsFile)

\* DataManager.create_sample_data
create_sample_data ==
    /\ movies_df' = SampleMovieTable
    /\ ratings_df' = SampleRatingTable(now)
    /\ rng' = SampleRngAfter

\* DataManager.__init__ -> load_data: no exception leaves it, the service starts
load_data ==
    /\ phase = "boot"
    /\ IF LoadsFiles
         THEN /\ movies_df' = moviesFile.rows
              /\ ratings_df' = ratingsFile.rows
              /\ rng' = rng
         ELSE create_sample_data
    /\ phase' = "serving"
    /\ UNCHANGED <<moviesFile, ratingsFile, now, resp, snap, dash, qs, pl, conc>>

----------------------------------------------------------------------------
(* Requests and responses *)

UserIds == {-1, 1, 3}            \* user_id path parameters
NInputs == {1, 3, 51}            \* n_recommendations query parameters

\* a request body of POST /ratings; timestamp <<>> is None, <<t>> is t
RatingBody(u, m, r, t) == [userId |-> u, movieId |-> m, rating |-> r, timestamp |-> t]

PostBodies == { RatingBody(1, 1, 50, <<>>),     \* 5.0
                RatingBody(-1, 1, 50, <<300>>), \* a negative user id, a timestamp in year 11476
                RatingBody(1, 2, 7, <<0>>),     \* 0.7, timestamp 0
                RatingBody(1, 9, 50, <<>>),     \* a movie of no table
                RatingBody(1, 1, 55, <<>>),     \* 5.5
                RatingBody(1, 9, 3, <<>>) }     \* 0.3

Response(op, status, args, body) ==
    [op |-> op, status |-> status, args |-> args, body |-> body]

NoResponse == Response("none", 0, <<>>, <<>>)

\* what the observer keeps of a response: the response and the size of ratings_df then
Snapshot(r, rows) ==
    [op |-> r.op, status |-> r.status, args |-> r.args, body |-> r.body, rows |-> rows]

NoSnapshot == Snapshot(NoResponse, 0)

----------------------------------------------------------------------------
(* GET /recommend/user/{user_id} *)

Reasons == <<"Base sur vos films preferes",
             "Populaire parmi les utilisateurs similaires",
             "Nouveau film tendance",
             "Correspond a vos genres favoris",
             "Recommande par notre IA">>

RemoveAt(seq, i) == SubSeq(seq, 1, i - 1) \o SubSeq(seq, i + 1, Len(seq))

RECURSIVE df_sample(_, _, _)
\* movies_df.sample(k): k rows drawn without replacement from the global generator
df_sample(rows, k, s) ==
    IF k = 0
      THEN [rows |-> <<>>, rng |-> s]
      ELSE LET s1   == RngNext(s)
               i    == ChoiceOf(s1, Len(rows))
               rest == df_sample(RemoveAt(rows, i), k - 1, s1)
           IN  [rows |-> <<rows[i]>> \o rest.rows, rng |-> rest.rng]

\* score = 0.5 + 0.4 * np.random.random(), in thousandths
SimulatedScore(r) == 500 + ((400 * r) \div RandRes)

\* Recommendation.score: Field(..., ge=0.0, le=1.0)
ScoreFieldOk(score) == score >= 0 /\ score <= 1000

\* a score of 0.5 + 1.4 * np.random.random() in a Recommendation built without validation
NewRecommendation_Unvalidated(movie, s) ==
    LET s1    == RngNext(s)
        s2    == RngNext(s1)
        score == 500 + ((1400 * RandomOf(s1)) \div RandRes)
    IN  [rec |-> [movieId |-> movie.movieId, title |-> movie.title,
                  genres |-> movie.genres, score |-> score,
                  reason |-> Reasons[ChoiceOf(s2, Len(Reasons))]],
         ok  |-> TRUE,
         rng |-> s2]

\* one turn of the loop: a score, a reason, the validated Recommendation
NewRecommendation(movie, s) ==
    LET s1    == RngNext(s)
        s2    == RngNext(s1)
        score == SimulatedScore(RandomOf(s1))
    IN  [rec |-> [movieId |-> movie.movieId, title |-> movie.title,
                  genres |-> movie.genres, score |-> score,
                  reason |-> Reasons[ChoiceOf(s2, Len(Reasons))]],
         ok  |-> ScoreFieldOk(score),
         rng |-> s2]

RECURSIVE BuildRecommendations(_, _)
\* for _, movie in sample_movies.iterrows(): recommendations.append(...)
BuildRecommendations(sample, s) ==
    IF sample = <<>>
      THEN [recs |-> <<>>, ok |-> TRUE, rng |-> s]
      ELSE LET one  == NewRecommendation(Head(sample), s)
               rest == BuildRecommendations(Tail(sample), one.rng)
           IN  [recs |-> <<one.rec>> \o rest.recs,
                ok   |-> one.ok /\ rest.ok,
                rng  |-> rest.rng]

RECURSIVE InsertByScore(_, _)
\* x goes after every entry whose score is at least its own
InsertByScore(sorted, x) ==
    IF sorted = <<>> THEN <<x>>
    ELSE IF Head(sorted).score >= x.score
           THEN <<Head(sorted)>> \o InsertByScore(Tail(sorted), x)
           ELSE <<x>> \o sorted

RECURSIVE SortByScoreDesc(_)
\* recommendations.sort(key=lambda x: x.score, reverse=True): stable, the key is the score alone
SortByScoreDesc(recs) ==
    IF recs = <<>> THEN <<>>
    ELSE InsertByScore(SortByScoreDesc(SubSeq(recs, 1, Len(recs) - 1)), recs[Len(recs)])

\* np.random.seed raises ValueError outside 0 .. 2**32 - 1; the upper limit is
\* beyond the user ids of the model
SeedRaises(seed) == seed < 0

\* the handler's body: [status, body, rng]
Recommend(u, n, movies, s) ==
    IF n < NRecMin \/ n > NRecMax
      THEN [status |-> 422, body |-> <<>>, rng |-> s]
    ELSE IF SeedRaises(u)
      THEN [status |-> 500, body |-> <<>>, rng |-> s]
    ELSE LET s0     == np_random_seed(s, u)
             sample == df_sample(movies, Min(n, Len(movies)), s0)
             built  == BuildRecommendations(sample.rows, sample.rng)
         IN  IF built.ok
               THEN [status |-> 200, body |-> SortByScoreDesc(built.recs), rng |-> built.rng]
               ELSE [status |-> 500, body |-> <<>>, rng |-> built.rng]

get_user_recommendations(u, n) ==
    /\ phase = "serving"
    /\ LET out == Recommend(u, n, movies_df, rng)
       IN  /\ resp' = Response("recommend", out.status, <<u, n>>, out.body)
           /\ rng' = out.rng
    /\ snap' \in (IF snap.op = "none" /\ resp'.status = 200
                     THEN {snap, Snapshot(resp', Len(ratings_df))}
                     ELSE {snap})
    /\ UNCHANGED <<phase, moviesFile, ratingsFile, movies_df, ratings_df, now, dash, qs, pl, conc>>

\* the handler without the observer
recommend_user(u, n) ==
    /\ phase = "serving"
    /\ LET out == Recommend(u, n, movies_df, rng)
       IN  /\ resp' = Response("recommend", out.status, <<u, n>>, out.body)
           /\ rng' = out.rng
    /\ UNCHANGED <<phase, moviesFile, ratingsFile, movies_df, ratings_df, now, snap, dash, qs, pl, conc>>

----------------------------------------------------------------------------
(* POST /ratings *)

\* Rating: userId: int, movieId: int, rating: float = Field(..., ge=0.5, le=5.0),
\* timestamp: Optional[int]
RatingModelOk(rating) == rating.rating >= RatingMin /\ rating.rating <= RatingMax

\* a test every movie id passes
MovieExists_Always(movies, m) == TRUE

\* movies_df['movieId'].isin([rating.movieId]).any()
MovieExists(movies, m) == \E i \in 1..Len(movies) : movies[i].movieId = m

\* rating.timestamp or int(time.time()): None and 0 are both falsy
TimestampOr(t, clock) == IF t = <<>> THEN clock ELSE IF t[1] = 0 THEN clock ELSE t[1]

\* the new row put in front of the table
add_rating_Prepend(rating) ==
    /\ phase = "serving"
    /\ IF ~RatingModelOk(rating)
         THEN /\ resp' = Response("add_rating", 422, <<rating>>, <<>>)
              /\ ratings_df' = ratings_df
       ELSE IF ~MovieExists(movies_df, rating.movieId)
         THEN /\ resp' = Response("add_rating", 404, <<rating>>, <<>>)
              /\ ratings_df' = ratings_df
       ELSE LET new_rating == RatingRow(rating.userId, rating.movieId, rating.rating,
                                        TimestampOr(rating.timestamp, now))
            IN  /\ Len(ratings_df) < MaxRatings
                /\ ratings_df' = <<new_rating>> \o ratings_df
                /\ resp' = Response("add_rating", 200, <<rating>>, <<new_rating>>)
    /\ UNCHANGED <<phase, moviesFile, ratingsFile, movies_df, rng, now, snap, dash, qs, pl, conc>>

add_rating(rating) ==
    /\ phase = "serving"
    /\ IF ~RatingModelOk(rating)
         THEN /\ resp' = Response("add_rating", 422, <<rating>>, <<>>)
              /\ ratings_df' = ratings_df
       ELSE IF ~MovieExists(movies_df, rating.movieId)
         THEN /\ resp' = Response("add_rating", 404, <<rating>>, <<>>)
              /\ ratings_df' = ratings_df
       ELSE LET new_rating == RatingRow(rating.userId, rating.movieId, rating.rating,
                                        TimestampOr(rating.timestamp, now))
            IN  /\ Len(ratings_df) < MaxRatings
                /\ ratings_df' = Append(ratings_df, new_rating)
                /\ resp' = Response("add_rating", 200, <<rating>>, <<new_rating>>)
    /\ UNCHANGED <<phase, moviesFile, ratingsFile, movies_df, rng, now, snap, dash, qs, pl, conc>>

\* the handler whose new row takes the place of the table's last row
AddRating_Overwriting(rating, movies, ratings, clock) ==
    IF ~RatingModelOk(rating)
      THEN [status |-> 422, body |-> <<>>, ratings |-> ratings]
    ELSE IF ~MovieExists(movies, rating.movieId)
      THEN [status |-> 404, body |-> <<>>, ratings |-> ratings]
    ELSE LET new_rating == RatingRow(rating.userId, rating.movieId, rating.rating,
                                     TimestampOr(rating.timestamp, clock))
         IN  [status |-> 200, body |-> <<new_rating>>,
              ratings |-> SubSeq(ratings, 1, Len(ratings) - 1) \o <<new_rating>>]

\* the validation of the body and the handler's body: [status, body, ratings]
AddRating(rating, movies, ratings, clock) ==
    IF ~RatingModelOk(rating)
      THEN [status |-> 422, body |-> <<>>, ratings |-> ratings]
    ELSE IF ~MovieExists(movies, rating.movieId)
      THEN [status |-> 404, body |-> <<>>, ratings |-> ratings]
    ELSE LET new_rating == RatingRow(rating.userId, rating.movieId, rating.rating,
                                     TimestampOr(rating.timestamp, clock))
         IN  [status |-> 200, body |-> <<new_rating>>, ratings |-> Append(ratings, new_rating)]

----------------------------------------------------------------------------
(* Text: a string of the program as the sequence of its characters *)

DigitChar(d) == <<"0", "1", "2", "3", "4", "5", "6", "7", "8", "9">>[d + 1]

RECURSIVE Digits(_)
\* str(n) of a non-negative int
Digits(n) == IF n < 10 THEN <<DigitChar(n)>> ELSE Append(Digits(n \div 10), DigitChar(n % 10))

\* the characters of the names the titles of the model are made of
NameChars(name) ==
    CASE name = "Toy Story" -> <<"T", "o", "y", " ", "S", "t", "o", "r", "y">>
      [] name = "Heat"      -> <<"H", "e", "a", "t">>
      [] name = "Film"      -> <<"F", "i", "l", "m">>

\* 'Toy Story (1995)', 'Film 1 (1991)'
TitleChars(title) ==
    IF Len(title) = 2
      THEN NameChars(title[1]) \o <<" ", "(">> \o Digits(title[2]) \o <<")">>
      ELSE NameChars(title[1]) \o <<" ">> \o Digits(title[2])
               \o <<" ", "(">> \o Digits(title[3]) \o <<")">>

\* str.lower on one character of the model's alphabet
Lower(c) ==
    CASE c = "E" -> "e" [] c = "F" -> "f" [] c = "H" -> "h"
      [] c = "S" -> "s" [] c = "T" -> "t" [] OTHER -> c

LowerText(text) == [i \in 1..Len(text) |-> Lower(text[i])]

Contains(hay, needle) ==
    \E i \in 1..(Len(hay) - Len(needle) + 1) : SubSeq(hay, i, i + Len(needle) - 1) = needle

\* Series.str.contains(query, case=False) for a query of letters
str_contains(title, query) == Contains(LowerText(TitleChars(title)), LowerText(query))

\* genres_str.split('|')
GenreTags(genres) ==
    CASE genres = "Adventure|Comedy" -> <<"Adventure", "Comedy">>
      [] genres = "Action|Thriller"  -> <<"Action", "Thriller">>
      [] genres = "Action|Adventure" -> <<"Action", "Adventure">>
      [] genres = "Comedy|Romance"   -> <<"Comedy", "Romance">>
      [] genres = "Sci-Fi|Thriller"  -> <<"Sci-Fi", "Thriller">>
      [] OTHER                       -> <<genres>>

----------------------------------------------------------------------------
(* The GET handlers that read the tables *)

PageLimitMin == 1       \* get_movies: Query(20, ge=1, ...)
PageLimitMax == 100     \* get_movies: Query(20, ..., le=100)
SearchLimitMin == 1     \* search_movies: Query(10, ge=1, ...)
SearchLimitMax == 50    \* search_movies: Query(10, ..., le=50)
DatetimeMin == -62      \* datetime.fromtimestamp: year 1
DatetimeMax == 253      \* datetime.fromtimestamp: year 9999
TopGenres == 5          \* value_counts().head(5)
start_time == 1         \* start_time = time.time() at import

RECURSIVE SumRatings(_)
SumRatings(rows) == IF rows = <<>> THEN 0 ELSE rows[1].rating + SumRatings(Tail(rows))

\* float(rows['rating'].mean()) as the fraction <<sum, count>>
MeanRating(rows) == <<SumRatings(rows), Len(rows)>>

RatingsOfMovie(ratings, m) == SelectSeq(ratings, LAMBDA r : r.movieId = m)

RatingsOfUser(ratings, u) == SelectSeq(ratings, LAMBDA r : r.userId = u)

\* avg_rating: None (<<>>) when the movie has no rating
AvgRating(ratings, m) ==
    IF RatingsOfMovie(ratings, m) = <<>> THEN <<>> ELSE MeanRating(RatingsOfMovie(ratings, m))

\* Movie(movieId, title, genres, rating): year is never set
Movie(row, rating) ==
    [movieId |-> row.movieId, title |-> row.title, genres |-> row.genres,
     year |-> <<>>, rating |-> rating]

\* DataFrame.iloc[start:stop] for 0 <= start <= stop: the slice is clipped to the table
iloc_Inclusive(rows, start, stop) == SubSeq(rows, start + 1, Min(stop + 1, Len(rows)))

iloc(rows, start, stop) == SubSeq(rows, start + 1, Min(stop, Len(rows)))

\* the handler's body: [status, body]
GetMovies(limit, offset, movies) ==
    IF limit < PageLimitMin \/ limit > PageLimitMax \/ offset < 0
      THEN [status |-> 422, body |-> <<>>]
      ELSE LET movies_subset == iloc(movies, offset, offset + limit)
           IN  [status |-> 200,
                body |-> [i \in 1..Len(movies_subset) |-> Movie(movies_subset[i], <<>>)]]

PageInputs == { <<1, 0>>, <<1, 1>>, <<1, 2>>, <<2, 1>>, <<100, 0>>, <<101, 0>>, <<1, -1>> }

get_movies(limit, offset) ==
    /\ phase = "serving"
    /\ LET out == GetMovies(limit, offset, movies_df)
       IN  resp' = Response("get_movies", out.status, <<limit, offset>>, out.body)
    /\ UNCHANGED <<phase, moviesFile, ratingsFile, movies_df, ratings_df, rng, now, snap,
                   dash, qs, pl, conc>>

\* the handler's body: [status, body]
GetMovie(movie_id, movies, ratings) ==
    LET movie_row == SelectSeq(movies, LAMBDA m : m.movieId = movie_id)
    IN  IF movie_row = <<>>
          THEN [status |-> 404, body |-> <<>>]
          ELSE [status |-> 200,
                body |-> <<Movie(movie_row[1], AvgRating(ratings, movie_id))>>]

\* None (<<>>) is a missing query parameter
SearchQueryOk(query, limit) ==
    /\ query # <<>> /\ Len(query[1]) >= 1
    /\ limit >= SearchLimitMin /\ limit <= SearchLimitMax

\* DataFrame.head(n)
head(rows, n) == SubSeq(rows, 1, Min(n, Len(rows)))

\* the handler's body: [status, body]
SearchMovies(query, limit, movies, ratings) ==
    IF ~SearchQueryOk(query, limit)
      THEN [status |-> 422, body |-> <<>>]
      ELSE LET results == head(SelectSeq(movies, LAMBDA m : str_contains(m.title, query[1])),
                               limit)
           IN  [status |-> 200,
                body |-> [i \in 1..Len(results) |->
                            Movie(results[i], AvgRating(ratings, results[i].movieId))]]

\* a path segment: a word, or the decimal text of an int
WordSeg(w) == [word |-> w, int |-> <<>>]
IntSeg(n) == [word |-> "", int |-> <<n>>]

\* a segment of a route: a literal word or a {parameter}
Literal(w) == [param |-> FALSE, word |-> w]
Param == [param |-> TRUE, word |-> ""]

\* the GET routes, in the order of their @app.get decorators
GetRoutes == <<
    [handler |-> "root",                     pattern |-> <<>>],
    [handler |-> "health_check",             pattern |-> <<Literal("health")>>],
    [handler |-> "get_movies",               pattern |-> <<Literal("movies")>>],
    [handler |-> "get_movie",                pattern |-> <<Literal("movies"), Param>>],
    [handler |-> "search_movies",            pattern |-> <<Literal("movies"), Literal("search")>>],
    [handler |-> "get_user_recommendations", pattern |-> <<Literal("recommend"), Literal("user"), Param>>],
    [handler |-> "get_user_profile",         pattern |-> <<Literal("users"), Param, Literal("profile")>>],
    [handler |-> "get_statistics",           pattern |-> <<Literal("stats")>> ] >>

\* a {parameter} matches any one segment; its type is validated after the match
RouteMatches(pattern, path) ==
    /\ Len(pattern) = Len(path)
    /\ \A i \in 1..Len(pattern) :
          pattern[i].param \/ (path[i].int = <<>> /\ path[i].word = pattern[i].word)

\* the router takes the first route that matches
Dispatch(path) ==
    LET hits == {i \in 1..Len(GetRoutes) : RouteMatches(GetRoutes[i].pattern, path)}
    IN  IF hits = {} THEN "not_found"
        ELSE GetRoutes[CHOOSE i \in hits : \A j \in hits : i <= j].handler

\* a GET on a path of two segments under /movies
MoviePathRequests == {
    [path |-> <<WordSeg("movies"), IntSeg(1)>>, query |-> <<>>, limit |-> 10],
    [path |-> <<WordSeg("movies"), IntSeg(9)>>, query |-> <<>>, limit |-> 10],
    [path |-> <<WordSeg("movies"), WordSeg("search")>>, query |-> << <<"h", "E">> >>, limit |-> 10] }

\* GET /movies/<segment>: the router picks the handler, the handler answers
get_movies_path(req) ==
    /\ phase = "serving"
    /\ LET handler == Dispatch(req.path)
           out == IF handler = "search_movies"
                    THEN SearchMovies(req.query, req.limit, movies_df, ratings_df)
                  ELSE IF req.path[2].int = <<>>                    \* movie_id: int
                    THEN [status |-> 422, body |-> <<>>]
                  ELSE GetMovie(req.path[2].int[1], movies_df, ratings_df)
       IN  resp' = Response(handler, out.status, <<req.path, req.query, req.limit>>, out.body)
    /\ UNCHANGED <<phase, moviesFile, ratingsFile, movies_df, ratings_df, rng, now, snap,
                   dash, qs, pl, conc>>

root ==
    /\ phase = "serving"
    /\ resp' = Response("root", 200, <<>>,
                        [health |-> "/health", movies |-> "/movies",
                         recommendations |-> "/recommend/user/{user_id}",
                         ratings |-> "/ratings", search |-> "/movies/search"])
    /\ UNCHANGED <<phase, moviesFile, ratingsFile, movies_df, ratings_df, rng, now, snap,
                   dash, qs, pl, conc>>

health_check ==
    /\ phase = "serving"
    /\ resp' = Response("health_check", 200, <<>>,
                        [status |-> "healthy", timestamp |-> now, uptime |-> now - start_time])
    /\ UNCHANGED <<phase, moviesFile, ratingsFile, movies_df, ratings_df, rng, now, snap,
                   dash, qs, pl, conc>>

\* datetime.fromtimestamp raises outside the years 1 .. 9999
FromTimestampRaises(t) == t < DatetimeMin \/ t > DatetimeMax

RECURSIVE MaxTimestamp(_)
MaxTimestamp(rows) ==
    IF Len(rows) = 1 THEN rows[1].timestamp
    ELSE LET m == MaxTimestamp(Tail(rows))
         IN  IF rows[1].timestamp >= m THEN rows[1].timestamp ELSE m

\* the handler's body: [status, body]; an exception it does not catch is a 500
GetUserProfile(user_id, ratings) ==
    LET user_ratings == RatingsOfUser(ratings, user_id)
    IN  IF user_ratings = <<>>
          THEN [status |-> 404, body |-> <<>>]
        ELSE IF FromTimestampRaises(MaxTimestamp(user_ratings))
          THEN [status |-> 500, body |-> <<>>]
        ELSE [status |-> 200,
              body |-> [userId |-> user_id,
                        totalRatings |-> Len(user_ratings),
                        averageRating |-> MeanRating(user_ratings),
                        favoriteGenres |-> <<"Action", "Comedy", "Drama">>,
                        lastActivity |-> MaxTimestamp(user_ratings)]]

\* a profile request that drops the user's rows once read
get_user_profile_Consuming(user_id) ==
    /\ phase = "serving"
    /\ LET out == GetUserProfile(user_id, ratings_df)
       IN  resp' = Response("get_user_profile", out.status, <<user_id>>, out.body)
    /\ ratings_df' = SelectSeq(ratings_df, LAMBDA r : r.userId # user_id)
    /\ UNCHANGED <<phase, moviesFile, ratingsFile, movies_df, rng, now, snap,
                   dash, qs, pl, conc>>

get_user_profile(user_id) ==
    /\ phase = "serving"
    /\ LET out == GetUserProfile(user_id, ratings_df)
       IN  resp' = Response("get_user_profile", out.status, <<user_id>>, out.body)
    /\ UNCHANGED <<phase, moviesFile, ratingsFile, movies_df, ratings_df, rng, now, snap,
                   dash, qs, pl, conc>>

\* value_counts() of a column: the values with their counts
ValueCounts(values) ==
    {[value |-> v, count |-> Cardinality({i \in 1..Len(values) : values[i] = v})] :
        v \in Rows(values)}

\* value_counts().head(n): n entries of the largest counts; the order among equal
\* counts is the sort's
HeadOfCounts(counts, n) ==
    {top \in SUBSET counts :
        /\ Cardinality(top) = Min(n, Cardinality(counts))
        /\ \A a \in top, b \in counts \ top : a.count >= b.count}

RECURSIVE AllGenres(_)
AllGenres(movies) ==
    IF movies = <<>> THEN <<>> ELSE GenreTags(movies[1].genres) \o AllGenres(Tail(movies))

\* the title of the most rated movie, None (<<>>) when its id is falsy or not in the table
MostPopularTitle(id, movies) ==
    LET movie_info == SelectSeq(movies, LAMBDA m : m.movieId = id)
    IN  IF id = 0 \/ movie_info = <<>> THEN <<>> ELSE <<movie_info[1].title>>

\* the mean of no rating is NaN, which the JSON encoder refuses or writes as null
get_statistics ==
    /\ phase = "serving"
    /\ IF ratings_df = <<>>
         THEN \E status \in {200, 500} :
                resp' = Response("get_statistics", status, <<>>, <<>>)
         ELSE \E first \in HeadOfCounts(ValueCounts([i \in 1..Len(ratings_df) |->
                                                        ratings_df[i].movieId]), 1),
                 genre_counts \in HeadOfCounts(ValueCounts(AllGenres(movies_df)), TopGenres) :
                LET most_popular_movie_id == (CHOOSE c \in first : TRUE).value
                IN  resp' = Response("get_statistics", 200, <<>>,
                        [total_movies |-> Len(movies_df),
                         total_ratings |-> Len(ratings_df),
                         total_users |-> Cardinality({r.userId : r \in Rows(ratings_df)}),
                         average_rating |-> MeanRating(ratings_df),
                         most_popular_movie |-> MostPopularTitle(most_popular_movie_id, movies_df),
                         top_genres |-> genre_counts])
    /\ UNCHANGED <<phase, moviesFile, ratingsFile, movies_df, ratings_df, rng, now, snap,
                   dash, qs, pl, conc>>

----------------------------------------------------------------------------
(* The dashboard: CineRecommendApp (src/src/streamlit_app/app.py) *)

\* sample_movies of CineRecommendApp.create_sample_data
DashSampleMovies == <<
    MovieRow(1, <<"Toy Story", 1995>>, "Adventure|Animation|Children|Comedy|Fantasy"),
    MovieRow(2, <<"Jumanji", 1995>>, "Adventure|Children|Fantasy"),
    MovieRow(3, <<"Grumpier Old Men", 1995>>, "Comedy|Romance"),
    MovieRow(4, <<"Waiting to Exhale", 1995>>, "Comedy|Drama|Romance"),
    MovieRow(5, <<"Father of the Bride Part II", 1995>>, "Comedy"),
    MovieRow(6, <<"Heat", 1995>>, "Action|Crime|Thriller"),
    MovieRow(7, <<"Sabrina", 1995>>, "Comedy|Romance"),
    MovieRow(8, <<"Tom and Huck", 1995>>, "Adventure|Children"),
    MovieRow(9, <<"Sudden Death", 1995>>, "Action"),
    MovieRow(10, <<"GoldenEye", 1995>>, "Action|Adventure|Thriller") >>

DashUserIds == {1, 3}            \* user_id of the number input
DashNInputs == {1, 2}            \* n_recommendations of the slider

\* the dashboard process before CineRecommendApp(): the generator is seeded by the
\* operating system's entropy, the program never seeds it
DashBoot(s) ==
    [phase |-> "boot", movies_df |-> <<>>, rng |-> s, resp |-> NoResponse, earlier |-> NoResponse]

\* CineRecommendApp.__init__ and load_data: the files when both exist and can be read,
\* the built-in sample otherwise
CineRecommendApp_load_data ==
    /\ dash.phase = "boot"
    /\ dash' = [dash EXCEPT !.phase = "ready",
                            !.movies_df = IF LoadsFiles THEN moviesFile.rows
                                          ELSE DashSampleMovies]
    /\ UNCHANGED <<phase, moviesFile, ratingsFile, movies_df, ratings_df, rng, now, resp, snap,
                   qs, pl, conc>>

\* np.random.uniform(0.7, 0.95), in thousandths
UniformScore(r) == 700 + ((250 * r) \div RandRes)

RECURSIVE DashRecommendations(_, _)
\* the loop over the sampled movies: [recs, rng]
DashRecommendations(sample, s) ==
    IF sample = <<>>
      THEN [recs |-> <<>>, rng |-> s]
      ELSE LET s1   == RngNext(s)
               rest == DashRecommendations(Tail(sample), s1)
           IN  [recs |-> <<[title |-> sample[1].title, genres |-> sample[1].genres,
                            score |-> UniformScore(RandomOf(s1)),
                            reason |-> "Basé sur vos préférences"]>> \o rest.recs,
                rng |-> rest.rng]

\* the method's body: [body, rng]; user_id and movie_title are not read
GetRecommendations(user_id, n_recommendations, movies, s) ==
    LET sample == df_sample(movies, Min(n_recommendations, Len(movies)), s)
        built  == DashRecommendations(sample.rows, sample.rng)
    IN  [body |-> SortByScoreDesc(built.recs), rng |-> built.rng]

get_recommendations(user_id, n_recommendations) ==
    /\ dash.phase = "ready"
    /\ LET out == GetRecommendations(user_id, n_recommendations, dash.movies_df, dash.rng)
           r   == Response("get_recommendations", 200, <<user_id, n_recommendations>>, out.body)
       IN  \E keep \in BOOLEAN :
              dash' = [dash EXCEPT !.rng = out.rng,
                                   !.resp = r,
                                   !.earlier = IF keep /\ dash.earlier.op = "none"
                                                 THEN r ELSE dash.earlier]
    /\ UNCHANGED <<phase, moviesFile, ratingsFile, movies_df, ratings_df, rng, now, resp, snap,
                   qs, pl, conc>>

----------------------------------------------------------------------------
(* quick_start.py *)

\* required_packages of QuickStart.check_dependencies
RequiredPackages ==
    {"pandas", "numpy", "scikit-learn", "surprise", "fastapi", "uvicorn", "streamlit", "plotly"}

\* the name a package is imported under
ImportName(package) == IF package = "scikit-learn" THEN "sklearn" ELSE package

\* __import__(name) succeeds when an installed package provides a module of that very
\* name, or when a module or directory of that name lies on sys.path
Importable(name, env) ==
    \/ \E package \in env.installed : ImportName(package) = name
    \/ name \in env.pathModules

\* the environments of a run: the installed packages, the other modules on sys.path,
\* whether ./logs exists
Environments ==
    [installed   : {RequiredPackages, RequiredPackages \ {"plotly"},
                    RequiredPackages \ {"scikit-learn"}},
     pathModules : {{}, {"scikit-learn"}},
     logsDir     : BOOLEAN]

\* one call of the run: ok is "returned True" for a check, "did not raise" otherwise
Call(name, ok) == [call |-> name, ok |-> ok]

QsIdle ==
    [env |-> [installed |-> RequiredPackages, pathModules |-> {}, logsDir |-> TRUE],
     pc |-> "idle", step |-> 0, calls |-> <<>>, exit |-> <<>>]

QsStart(env) == [QsIdle EXCEPT !.env = env, !.pc = "import"]

\* the process ends: main returned (0) or an exception reached main or the interpreter (1)
QsExit(q, status) == [q EXCEPT !.pc = "exit", !.step = 0, !.exit = <<status>>]

QsFrame ==
    UNCHANGED <<phase, moviesFile, ratingsFile, movies_df, ratings_df, rng, now, resp, snap,
                dash, pl, conc>>

\* module level: logging.FileHandler('logs/quick_start.log') raises without ./logs
quick_start_import ==
    /\ qs.pc = "import"
    /\ qs' = IF qs.env.logsDir THEN [qs EXCEPT !.pc = "check_dependencies"]
             ELSE QsExit(qs, 1)
    /\ QsFrame

\* the loop over required_packages: True when no __import__ raised ImportError
CheckDependencies(env) == {p \in RequiredPackages : ~Importable(p, env)} = {}

\* step 1 of run: return when the check fails
check_dependencies ==
    /\ qs.pc = "check_dependencies"
    /\ LET ok   == CheckDependencies(qs.env)
           done == [qs EXCEPT !.calls = Append(@, Call("check_dependencies", ok))]
       IN  qs' = IF ok THEN [done EXCEPT !.pc = "setup_directories"] ELSE QsExit(done, 0)
    /\ QsFrame

\* step 2 of run: mkdir may raise, the exception reaches main
setup_directories ==
    /\ qs.pc = "setup_directories"
    /\ \E ok \in BOOLEAN :
          LET done == [qs EXCEPT !.calls = Append(@, Call("setup_directories", ok)),
                                 !.env.logsDir = ok \/ @]
          IN  qs' = IF ok THEN [done EXCEPT !.pc = "check_data_files"] ELSE QsExit(done, 1)
    /\ QsFrame

\* required_files of check_data_files, and of the test in run_data_pipeline
DataFilesExist == moviesFile.kind # "absent" /\ ratingsFile.kind # "absent"

\* step 3 of run: return when a required file is missing
check_data_files ==
    /\ qs.pc = "check_data_files"
    /\ LET done == [qs EXCEPT !.calls = Append(@, Call("check_data_files", DataFilesExist))]
       IN  qs' = IF DataFilesExist THEN [done EXCEPT !.pc = "run_data_pipeline"]
               ELSE QsExit(done, 0)
    /\ QsFrame

\* the statements of run_data_pipeline's try block, mis-ordered
PipelineSteps_SaveFirst ==
    <<"import", "exists", "processor.load_data", "processor.preprocess_movies",
      "processor.preprocess_ratings",
      "cf_model.save_model", "cf_model.fit",
      "cb_model.fit", "cb_model.save_model",
      "hybrid_model.fit", "hybrid_model.save_model">>

\* the statements of run_data_pipeline's try block
PipelineSteps ==
    <<"import", "exists", "processor.load_data", "processor.preprocess_movies",
      "processor.preprocess_ratings",
      "cf_model.fit", "cf_model.save_model",
      "cb_model.fit", "cb_model.save_model",
      "hybrid_model.fit", "hybrid_model.save_model">>

\* run_data_pipeline returns: step 4 of run goes on to launch_streamlit or returns
PipelineReturns(q, ok) ==
    LET done == [q EXCEPT !.calls = Append(@, Call("run_data_pipeline", ok)), !.step = 0]
    IN  IF ok THEN [done EXCEPT !.pc = "launch_streamlit"] ELSE QsExit(done, 0)

\* one statement of run_data_pipeline: the modules it calls may raise, and
\* except Exception turns that into return False
run_data_pipeline ==
    /\ qs.pc = "run_data_pipeline"
    /\ LET k    == qs.step + 1
           stmt == PipelineSteps[k]
       IN  IF stmt = "exists"
             THEN qs' = IF DataFilesExist THEN [qs EXCEPT !.step = k]
                        ELSE PipelineReturns(qs, FALSE)
             ELSE \E ok \in BOOLEAN :
                    LET done == [qs EXCEPT !.calls = Append(@, Call(stmt, ok)), !.step = k]
                    IN  qs' = IF ~ok THEN PipelineReturns(done, FALSE)
                              ELSE IF k = Len(PipelineSteps) THEN PipelineReturns(done, TRUE)
                              ELSE done
    /\ QsFrame

\* subprocess.run of start_streamlit_simple.py; whatever ends it, run returns
launch_streamlit ==
    /\ qs.pc = "launch_streamlit"
    /\ qs' = QsExit([qs EXCEPT !.calls = Append(@, Call("launch_streamlit", TRUE))], 0)
    /\ QsFrame

\* Ctrl+C before the subprocess: no except Exception catches it, main logs it and returns
quick_start_KeyboardInterrupt ==
    /\ qs.pc \notin {"idle", "import", "exit"}
    /\ qs' = QsExit(qs, 0)
    /\ QsFrame

----------------------------------------------------------------------------
(* launch_project.py *)

PlIdle ==
    [appFile |-> TRUE, pc |-> "idle", calls |-> <<>>, interrupted |-> FALSE,
     returned |-> <<>>, exit |-> <<>>]

PlStart(appFile) == [PlIdle EXCEPT !.appFile = appFile, !.pc = "print_banner"]

\* run returns success; main: if not success: sys.exit(1)
PlReturn(l, success) ==
    [l EXCEPT !.pc = "exit", !.returned = <<success>>,
              !.exit = <<IF success THEN 0 ELSE 1>>]

\* a statement of run's try block that returns nothing: an exception it raises is
\* caught by except Exception
PlStatement(name, next) ==
    /\ pl.pc = name
    /\ \E ok \in BOOLEAN :
          LET done == [pl EXCEPT !.calls = Append(@, Call(name, ok))]
          IN  pl' = IF ok THEN [done EXCEPT !.pc = next] ELSE PlReturn(done, FALSE)
    /\ UNCHANGED <<phase, moviesFile, ratingsFile, movies_df, ratings_df, rng, now, resp, snap,
                   dash, qs, conc>>

print_banner == PlStatement("print_banner", "quick_setup")

quick_setup == PlStatement("quick_setup", "check_critical_files")

\* critical_files: the dashboard's source and the two data files
CriticalFilesPresent(l) == l.appFile /\ DataFilesExist

\* a check that looks at the application's file alone
CheckCriticalFiles_AppOnly(l) == l.appFile

CheckCriticalFiles(l) == CriticalFilesPresent(l)

check_critical_files ==
    /\ pl.pc = "check_critical_files"
    /\ LET ok   == CheckCriticalFiles(pl)
           done == [pl EXCEPT !.calls = Append(@, Call("check_critical_files", ok))]
       IN  pl' = IF ok THEN [done EXCEPT !.pc = "install_dependencies"]
               ELSE PlReturn(done, FALSE)
    /\ UNCHANGED <<phase, moviesFile, ratingsFile, movies_df, ratings_df, rng, now, resp, snap,
                   dash, qs, conc>>

install_dependencies == PlStatement("install_dependencies", "prepare_models")

prepare_models == PlStatement("prepare_models", "launch_application")

\* return False without the application's file; otherwise subprocess.run, which ends
\* normally or by Ctrl+C (return True) or raises (return False)
launch_application ==
    /\ pl.pc = "launch_application"
    /\ IF ~pl.appFile
         THEN pl' = PlReturn([pl EXCEPT !.calls = Append(@, Call("launch_application", FALSE))],
                             FALSE)
         ELSE \E ok \in BOOLEAN :
                pl' = PlReturn([pl EXCEPT !.calls = Append(@, Call("subprocess.run", ok))
                                                       \o <<Call("launch_application", ok)>>],
                               ok)
    /\ UNCHANGED <<phase, moviesFile, ratingsFile, movies_df, ratings_df, rng, now, resp, snap,
                   dash, qs, conc>>

\* Ctrl+C inside run's try block, before the subprocess: except KeyboardInterrupt returns True
launch_project_KeyboardInterrupt ==
    /\ pl.pc \notin {"idle", "exit"}
    /\ pl' = PlReturn([pl EXCEPT !.interrupted = TRUE], TRUE)
    /\ UNCHANGED <<phase, moviesFile, ratingsFile, movies_df, ratings_df, rng, now, resp, snap,
                   dash, qs, conc>>

----------------------------------------------------------------------------
(* Requests in progress: uvicorn runs one process with one event loop; a request
   is read and validated, then its `async def` handler runs without any await, so
   to completion, then the response is sent. Requests interleave between these
   steps, never inside a handler. *)

MaxConns == 2       \* connections served at the same time

Conns == 1..MaxConns

IdleConn == [stage |-> "idle", rating |-> RatingBody(0, 0, 0, <<>>), status |-> 0, row |-> <<>>]

\* no request in progress, no POST answered yet
NoRequests == [conns |-> [c \in Conns |-> IdleConn], answered |-> <<>>]

\* the POST bodies sent at the same time
ConcurrentBodies == { RatingBody(1, 1, 50, <<>>), RatingBody(1, 2, 7, <<0>>),
                      RatingBody(1, 9, 50, <<>>) }

\* a POST /ratings arrives on a free connection; its body is read
receive_rating(c, rating) ==
    /\ phase = "serving"
    /\ conc.conns[c].stage = "idle"
    /\ conc' = [conc EXCEPT !.conns[c] = [IdleConn EXCEPT !.stage = "received", !.rating = rating]]
    /\ UNCHANGED <<phase, moviesFile, ratingsFile, movies_df, ratings_df, rng, now, resp, snap,
                   dash, qs, pl>>

\* the event loop runs add_rating for one received request, to completion
run_add_rating(c) ==
    /\ phase = "serving"
    /\ conc.conns[c].stage = "received"
    /\ LET out == AddRating(conc.conns[c].rating, movies_df, ratings_df, now)
       IN  /\ out.status = 200 => Len(ratings_df) < MaxRatings
           /\ ratings_df' = out.ratings
           /\ conc' = [conc EXCEPT !.conns[c].stage = "handled",
                                   !.conns[c].status = out.status,
                                   !.conns[c].row = out.body]
    /\ UNCHANGED <<phase, moviesFile, ratingsFile, movies_df, rng, now, resp, snap,
                   dash, qs, pl>>

\* the response is sent: the request is answered
send_response(c) ==
    /\ conc.conns[c].stage = "handled"
    /\ resp' = Response("add_rating", conc.conns[c].status, <<conc.conns[c].rating>>,
                        conc.conns[c].row)
    /\ conc' = [conc EXCEPT !.conns[c] = IdleConn,
                            !.answered = IF conc.conns[c].status = 200
                                           THEN @ \o conc.conns[c].row ELSE @]
    /\ UNCHANGED <<phase, moviesFile, ratingsFile, movies_df, ratings_df, rng, now, snap,
                   dash, qs, pl>>

----------------------------------------------------------------------------
(* The clock *)

Tick ==
    /\ now < MaxTime
    /\ now' = now + 1
    /\ UNCHANGED <<phase, moviesFile, ratingsFile, movies_df, ratings_df, rng, resp, snap, dash, qs, pl, conc>>

----------------------------------------------------------------------------
(* Specification *)

Files(contents) ==
    {[kind |-> "absent", rows |-> <<>>], [kind |-> "malformed", rows |-> <<>>]}
        \cup {[kind |-> "ok", rows |-> c] : c \in contents}

\* the service before DataManager() ran
ApiInit ==
    /\ phase = "boot"
    /\ moviesFile \in Files(MovieFiles)
    /\ ratingsFile \in Files(RatingFiles)
    /\ movies_df = <<>>
    /\ ratings_df = <<>>
    /\ rng \in {0, RngMod - 1}
    /\ now = start_time
    /\ resp = NoResponse
    /\ snap = NoSnapshot
    /\ conc = NoRequests

Init ==
    /\ ApiInit
    /\ dash = DashBoot(0)
    /\ qs = QsIdle
    /\ pl = PlIdle

Next ==
    \/ load_data
    \/ Tick
    \/ \E u \in UserIds, n \in NInputs : get_user_recommendations(u, n)
    \/ \E rating \in PostBodies : add_rating(rating)

\* the service with its recommendation responses observed
Spec == Init /\ [][Next]_vars

NextApi ==
    \/ load_data
    \/ Tick
    \/ root
    \/ health_check
    \/ \E page \in PageInputs : get_movies(page[1], page[2])
    \/ \E req \in MoviePathRequests : get_movies_path(req)
    \/ \E u \in UserIds, n \in NInputs : recommend_user(u, n)
    \/ \E rating \in PostBodies : add_rating(rating)
    \/ \E u \in UserIds : get_user_profile(u)
    \/ get_statistics

\* the service with all its routes
SpecApi == Init /\ [][NextApi]_vars

InitDashboard ==
    /\ ApiInit /\ rng = 0
    /\ dash \in {DashBoot(s) : s \in 0..(RngMod - 1)}
    /\ qs = QsIdle
    /\ pl = PlIdle

NextDashboard ==
    \/ CineRecommendApp_load_data
    \/ \E u \in DashUserIds, n \in DashNInputs : get_recommendations(u, n)

SpecDashboard == InitDashboard /\ [][NextDashboard]_vars

InitQuickStart ==
    /\ ApiInit
    /\ dash = DashBoot(0)
    /\ qs \in {QsStart(env) : env \in Environments}
    /\ pl = PlIdle

NextQuickStart ==
    \/ quick_start_import
    \/ check_dependencies
    \/ setup_directories
    \/ check_data_files
    \/ run_data_pipeline
    \/ launch_streamlit
    \/ quick_start_KeyboardInterrupt

SpecQuickStart == InitQuickStart /\ [][NextQuickStart]_vars

InitLauncher ==
    /\ ApiInit
    /\ dash = DashBoot(0)
    /\ qs = QsIdle
    /\ pl \in {PlStart(appFile) : appFile \in BOOLEAN}

NextLauncher ==
    \/ print_banner
    \/ quick_setup
    \/ check_critical_files
    \/ install_dependencies
    \/ prepare_models
    \/ launch_application
    \/ launch_project_KeyboardInterrupt

SpecLauncher == InitLauncher /\ [][NextLauncher]_vars

NextConcurrent ==
    \/ load_data
    \/ Tick
    \/ \E c \in Conns, rating \in ConcurrentBodies : receive_rating(c, rating)
    \/ \E c \in Conns : run_add_rating(c)
    \/ \E c \in Conns : send_response(c)
    \/ get_user_profile(1)

\* the service under requests that overlap
SpecConcurrent == Init /\ [][NextConcurrent]_vars

----------------------------------------------------------------------------
(* Properties *)

IsRecommendation(r) == r.op = "recommend" /\ r.status = 200

\* C1: every recommendation returned by GET /recommend/user/{user_id} has a score
\* in the closed interval [0, 1] (0 .. 1000 thousandths).
C1_ScoresInUnitInterval ==
    resp.op = "recommend" =>
        \A i \in 1..Len(resp.body) : resp.body[i].score >= 0 /\ resp.body[i].score <= 1000

\* a list of two recommendations was returned while the ratings table held rows
C1_Witness ==
    /\ IsRecommendation(resp)
    /\ Len(resp.body) >= 2
    /\ ratings_df # <<>>

\* C2: a recommendation request answers as every earlier request with the same
\* user_id and n_recommendations did (same movies, scores, reasons, order),
\* whatever requests ran in between.
C2_Deterministic ==
    (resp.op = "recommend" /\ snap.op = "recommend" /\ resp.args = snap.args) =>
        (resp.status = snap.status /\ resp.body = snap.body)

\* the same request was answered again after a rating had been posted in between
C2_Witness ==
    /\ IsRecommendation(resp)
    /\ snap.op = "recommend"
    /\ resp.args = snap.args
    /\ Len(resp.body) >= 2
    /\ Len(ratings_df) > snap.rows

\* C3: a recommendation list for user u holds no movie u has rated.
C3_NoRatedMovieRecommended ==
    IsRecommendation(resp) =>
        \A i \in 1..Len(resp.body) :
            ~\E row \in Rows(ratings_df) :
                row.userId = resp.args[1] /\ row.movieId = resp.body[i].movieId

RatingCount(m) == Cardinality({i \in 1..Len(ratings_df) : ratings_df[i].movieId = m})

HasRatings(u) == \E row \in Rows(ratings_df) : row.userId = u

\* C4: a user with no row in the ratings table is answered with the n most rated
\* movies: no movie left out has more rating rows than a movie returned.
C4_PopularityFallback ==
    (IsRecommendation(resp) /\ ~HasRatings(resp.args[1])) =>
        LET returned == {resp.body[i].movieId : i \in 1..Len(resp.body)}
            catalog  == {row.movieId : row \in Rows(movies_df)}
        IN  /\ Cardinality(returned) = Min(resp.args[2], Cardinality(catalog))
            /\ \A a \in returned, b \in catalog \ returned : RatingCount(a) >= RatingCount(b)

\* C5: the list is ordered by descending score, equal scores by ascending movieId,
\* and has at most n_recommendations entries.
C5_OrderedWithTieBreak ==
    IsRecommendation(resp) =>
        /\ Len(resp.body) <= resp.args[2]
        /\ \A i \in 1..(Len(resp.body) - 1) :
              \/ resp.body[i].score > resp.body[i + 1].score
              \/ /\ resp.body[i].score = resp.body[i + 1].score
                 /\ resp.body[i].movieId < resp.body[i + 1].movieId

\* C6: a recommendation request with a valid n_recommendations is answered with a
\* list, whatever the user id.
C6_NoErrorForAnyUser ==
    (resp.op = "recommend" /\ resp.args[2] >= NRecMin /\ resp.args[2] <= NRecMax) =>
        resp.status = 200

RowInDomain(row) ==
    /\ row.rating >= 5 /\ row.rating <= 50 /\ row.rating % 5 = 0
    /\ row.userId >= 0
    /\ row.movieId >= 0

\* C7: every row of the ratings table has a rating in [0.5, 5.0] that is a multiple
\* of 0.5 and non-negative ids (the tables the service starts from satisfy this).
C7_RowsInDomain == \A row \in Rows(ratings_df) : RowInDomain(row)

\* C8: no two rows of the ratings table share (userId, movieId).
C8_OneRowPerPair ==
    \A i, j \in 1..Len(ratings_df) :
        (ratings_df[i].userId = ratings_df[j].userId
            /\ ratings_df[i].movieId = ratings_df[j].movieId) => i = j

\* C9: when an input file exists but cannot be read, the load fails and the
\* service does not start on substituted data.
C9_FailedLoadSurfaced ==
    (ReadRaises(moviesFile) \/ ReadRaises(ratingsFile)) => phase # "serving"

\* C10: every row of the ratings table references a movie of the movies table.
C10_ReferentialIntegrity ==
    phase = "serving" => \A row \in Rows(ratings_df) : MovieExists(movies_df, row.movieId)

\* the ids of the movies table
MovieIds == {m.movieId : m \in Rows(movies_df)}

SearchPath == <<WordSeg("movies"), WordSeg("search")>>

\* C11: a GET on /movies/search with a non-empty query is dispatched to
\* search_movies and answered 200 with at most limit movies, each with a title that
\* contains the query whatever the case, in the order of the catalog.
C11_SearchReachable ==
    (resp.op \in {"get_movie", "search_movies", "not_found"}
        /\ resp.args[1] = SearchPath /\ resp.args[2] # <<>>)
    => /\ resp.op = "search_movies"
       /\ resp.status = 200
       /\ Len(resp.body) <= resp.args[3]
       /\ \A i \in 1..Len(resp.body) : str_contains(resp.body[i].title, resp.args[2][1])
       /\ \E pos \in [1..Len(resp.body) -> 1..Len(movies_df)] :
             /\ \A i \in 1..Len(resp.body) : movies_df[pos[i]].movieId = resp.body[i].movieId
             /\ \A i, j \in 1..Len(resp.body) : i < j => pos[i] < pos[j]

\* C12 as stated: a POST /ratings whose movieId is not in the movies table is
\* answered 404.
C12_AbsentMovie404 ==
    (resp.op = "add_rating" /\ phase = "serving" /\ resp.args[1].movieId \notin MovieIds)
    => resp.status = 404

\* C12: a POST /ratings whose movieId is not in the movies table is answered 404
\* when its body passes the Rating model and 422 when it does not; either way the
\* ratings table and the movies table stay as they were.
C12_ValidAbsentMovie404 ==
    [][\A rating \in PostBodies :
          (add_rating(rating) /\ rating.movieId \notin MovieIds)
          => /\ resp'.status = (IF rating.rating >= RatingMin /\ rating.rating <= RatingMax
                                  THEN 404 ELSE 422)
             /\ ratings_df' = ratings_df
             /\ movies_df' = movies_df]_vars

C12_Witness ==
    /\ resp.op = "add_rating" /\ resp.status = 404
    /\ resp.args[1].movieId \notin MovieIds
    /\ ratings_df # <<>>

\* C13: a successful POST /ratings adds exactly one row, at the end of the ratings
\* table, with the request's userId, movieId and rating; the rows that were there
\* keep their content and order, and the movies table is unchanged.
C13_AppendsOneRow ==
    [][\A rating \in PostBodies :
          (add_rating(rating) /\ resp'.status = 200)
          => /\ Len(ratings_df') = Len(ratings_df) + 1
             /\ SubSeq(ratings_df', 1, Len(ratings_df)) = ratings_df
             /\ ratings_df'[Len(ratings_df')].userId = rating.userId
             /\ ratings_df'[Len(ratings_df')].movieId = rating.movieId
             /\ ratings_df'[Len(ratings_df')].rating = rating.rating
             /\ movies_df' = movies_df]_vars

C13_Witness ==
    /\ resp.op = "add_rating" /\ resp.status = 200
    /\ Len(ratings_df) >= 2
    /\ ratings_df[Len(ratings_df)] = resp.body[1]
    /\ ratings_df[1] # resp.body[1]

RECURSIVE Pages(_, _, _)
\* the pages of the given size from the given offset on, one after the other
Pages(limit, offset, movies) ==
    IF offset >= Len(movies) THEN <<>>
    ELSE GetMovies(limit, offset, movies).body \o Pages(limit, offset + limit, movies)

\* C14: for offset >= 0 and limit in 1..100, GET /movies returns the movies at
\* positions offset .. min(offset + limit, N) - 1 of the table, in its order, none
\* when offset >= N; the consecutive pages of one size are disjoint and together
\* are the table.
C14_Pagination ==
    /\ (resp.op = "get_movies" /\ resp.args[1] >= 1 /\ resp.args[1] <= 100 /\ resp.args[2] >= 0)
       => LET limit  == resp.args[1]
              offset == resp.args[2]
              N      == Len(movies_df)
              last   == IF offset + limit <= N THEN offset + limit ELSE N
          IN  /\ resp.status = 200
              /\ Len(resp.body) = (IF offset >= N THEN 0 ELSE last - offset)
              /\ \A i \in 1..Len(resp.body) :
                    /\ resp.body[i].movieId = movies_df[offset + i].movieId
                    /\ resp.body[i].title = movies_df[offset + i].title
                    /\ resp.body[i].genres = movies_df[offset + i].genres
    /\ phase = "serving"
       => \A limit \in 1..(Len(movies_df) + 1) :
             Pages(limit, 0, movies_df) = [i \in 1..Len(movies_df) |-> Movie(movies_df[i], <<>>)]

C14_Witness ==
    /\ resp.op = "get_movies" /\ resp.status = 200
    /\ resp.args[2] > 0
    /\ resp.body # <<>>
    /\ Len(resp.body) < resp.args[1]

\* C15: GET /users/{id}/profile is answered 404 exactly when the user has no row in
\* the ratings table; a user with rows (so any user after a successful POST of
\* theirs) is answered 200 with totalRatings the number of their rows and
\* lastActivity the largest timestamp among them.
C15_ProfileOfRater ==
    resp.op = "get_user_profile"
    => LET mine == {i \in 1..Len(ratings_df) : ratings_df[i].userId = resp.args[1]}
       IN  IF mine = {}
             THEN resp.status = 404
             ELSE /\ resp.status = 200
                  /\ resp.body.totalRatings = Cardinality(mine)
                  /\ \E i \in mine : resp.body.lastActivity = ratings_df[i].timestamp
                  /\ \A i \in mine : resp.body.lastActivity >= ratings_df[i].timestamp

\* the calls of the quick_start run so far, by name
QsCalled(name) == {i \in 1..Len(qs.calls) : qs.calls[i].call = name}

\* C16: check_dependencies returns True when every required package is installed,
\* and then run goes on to setup_directories; it returns False only when a required
\* package is missing.
C16_DependenciesDetected ==
    \A i \in QsCalled("check_dependencies") :
        /\ (RequiredPackages \subseteq qs.env.installed) => qs.calls[i].ok
        /\ (RequiredPackages \subseteq qs.env.installed /\ Len(qs.calls) > i)
           => qs.calls[i + 1].call = "setup_directories"

\* C17: the dashboard's get_recommendations draws on no unseeded randomness: two
\* calls with the same arguments on the same table return the same list.
C17_RepeatableRecommendations ==
    (dash.resp.op = "get_recommendations" /\ dash.earlier.op = "get_recommendations"
        /\ dash.resp.args = dash.earlier.args)
    => dash.resp.body = dash.earlier.body

\* a step of one of the GET handlers
GetStep ==
    \/ root
    \/ health_check
    \/ \E page \in PageInputs : get_movies(page[1], page[2])
    \/ \E req \in MoviePathRequests : get_movies_path(req)
    \/ \E u \in UserIds, n \in NInputs : recommend_user(u, n)
    \/ \E u \in UserIds : get_user_profile(u)
    \/ get_statistics

\* C18: every GET handler leaves the movies table and the ratings table as they
\* were; once the service is up the only step that changes a table is a POST
\* /ratings answered 200, and it changes the ratings table alone.
C18_OnlyPostWrites ==
    [][(movies_df' # movies_df \/ ratings_df' # ratings_df)
          => /\ ~GetStep
             /\ phase = "serving"
                => /\ resp'.op = "add_rating" /\ resp'.status = 200
                   /\ movies_df' = movies_df]_vars

C18_Witness ==
    /\ resp.op = "get_user_profile" /\ resp.status = 200
    /\ Len(ratings_df) >= 2

\* every call of b so far comes after a call of a that succeeded
QsBefore(a, b) ==
    \A j \in QsCalled(b) : \E i \in QsCalled(a) : i < j /\ qs.calls[i].ok

PipelineCalls ==
    {"import", "processor.load_data", "processor.preprocess_movies",
     "processor.preprocess_ratings", "cf_model.fit", "cf_model.save_model",
     "cb_model.fit", "cb_model.save_model", "hybrid_model.fit", "hybrid_model.save_model"}

\* C19: launch_streamlit is called only after check_dependencies, check_data_files
\* and run_data_pipeline each returned True, and setup_directories ran before
\* check_data_files; in the pipeline each save_model comes after the fit of its
\* model, in the order collaborative, content-based, hybrid; an exception in the
\* pipeline makes it return False and Streamlit is not launched.
C19_RunOrder ==
    /\ QsBefore("check_dependencies", "launch_streamlit")
    /\ QsBefore("check_data_files", "launch_streamlit")
    /\ QsBefore("run_data_pipeline", "launch_streamlit")
    /\ QsBefore("setup_directories", "check_data_files")
    /\ QsBefore("cf_model.fit", "cf_model.save_model")
    /\ QsBefore("cf_model.save_model", "cb_model.fit")
    /\ QsBefore("cb_model.fit", "cb_model.save_model")
    /\ QsBefore("cb_model.save_model", "hybrid_model.fit")
    /\ QsBefore("hybrid_model.fit", "hybrid_model.save_model")
    /\ (\E i \in 1..Len(qs.calls) : qs.calls[i].call \in PipelineCalls /\ ~qs.calls[i].ok)
       => /\ \E i \in QsCalled("run_data_pipeline") : ~qs.calls[i].ok
          /\ QsCalled("launch_streamlit") = {}

C19_Witness ==
    /\ QsCalled("launch_streamlit") # {}
    /\ QsCalled("hybrid_model.save_model") # {}
    /\ qs.pc = "exit"

PlCalled(name) == {i \in 1..Len(pl.calls) : pl.calls[i].call = name}

\* the subprocess is started only after quick_setup completed and
\* check_critical_files returned True
PlLaunchGuarded ==
    \A j \in PlCalled("subprocess.run") :
        /\ \E i \in PlCalled("quick_setup") : i < j /\ pl.calls[i].ok
        /\ \E i \in PlCalled("check_critical_files") : i < j /\ pl.calls[i].ok

PlFileMissing == ~pl.appFile \/ moviesFile.kind = "absent" \/ ratingsFile.kind = "absent"

\* C20 as stated: Streamlit is started only after quick_setup completed and
\* check_critical_files returned True; when a critical file is missing the
\* subprocess is never started, run returns False and main exits with status 1.
C20_MissingFileExits1 ==
    /\ PlLaunchGuarded
    /\ PlFileMissing
       => /\ PlCalled("subprocess.run") = {}
          /\ pl.pc = "exit" => (pl.returned = <<FALSE>> /\ pl.exit = <<1>>)

\* C20: Streamlit is started only after quick_setup completed and
\* check_critical_files returned True; when a critical file is missing the
\* subprocess is never started, and run returns False and main exits with status 1
\* unless Ctrl+C interrupted the run, which then returns True and exits with status 0.
C20_MissingFileNoLaunch ==
    /\ PlLaunchGuarded
    /\ PlFileMissing
       => /\ PlCalled("subprocess.run") = {}
          /\ pl.pc = "exit"
             => IF pl.interrupted
                  THEN pl.returned = <<TRUE>> /\ pl.exit = <<0>>
                  ELSE pl.returned = <<FALSE>> /\ pl.exit = <<1>>

C20_Witness ==
    /\ PlFileMissing
    /\ \E i \in PlCalled("check_critical_files") : ~pl.calls[i].ok
    /\ pl.exit = <<1>>

\* the number of rows of the ratings table at start-up
StartupCount == IF LoadsFiles THEN Len(ratingsFile.rows) ELSE Len(SampleRatingTable(now))

CountOf(seq, x) == Cardinality({i \in 1..Len(seq) : seq[i] = x})

\* the connections whose POST has run with success and is not answered yet
Unanswered == {c \in Conns : conc.conns[c].stage = "handled" /\ conc.conns[c].status = 200}

\* C21: no rating is lost when requests overlap: whatever the interleaving, the
\* ratings table holds the rows of start-up followed by exactly one row per POST
\* that succeeded, so once k POSTs are answered 200 and none is between its handler
\* and its answer the table has exactly k rows more than at start-up.
C21_NoRatingLost ==
    phase = "serving"
    => LET added == SubSeq(ratings_df, StartupCount + 1, Len(ratings_df))
       IN  /\ Len(ratings_df) = StartupCount + Len(conc.answered) + Cardinality(Unanswered)
           /\ LoadsFiles => SubSeq(ratings_df, 1, StartupCount) = ratingsFile.rows
           /\ \A row \in Rows(added) \cup Rows(conc.answered) :
                 CountOf(added, row)
                    = CountOf(conc.answered, row)
                        + Cardinality({c \in Unanswered : conc.conns[c].row = <<row>>})

C21_Witness ==
    /\ Len(conc.answered) >= 1
    /\ \E c, d \in Conns :
          /\ conc.conns[c].stage = "handled" /\ conc.conns[c].status = 200
          /\ conc.conns[d].stage = "received"
    /\ Len(ratings_df) = StartupCount + 2

====
